---- MODULE Spec2Model ----
(***************************************************************************)
(* A model of models/rl_process.py: the ReplayMemory ring buffer, the      *)
(* optimize_model training step and the rl_process training loop.          *)
(*                                                                         *)
(* Two specifications share the variables:                                 *)
(*   SpecMem  a ReplayMemory object of any small capacity driven by        *)
(*            arbitrary push / sample calls;                               *)
(*   Spec     one run of rl_process, statement by statement.               *)
(***************************************************************************)
EXTENDS Integers, Sequences, FiniteSets, TLC

VARIABLES
    memory,            \* the ReplayMemory object: capacity, memory, position
    pushed,            \* history: every transition ever pushed, in call order
    ret,               \* SpecMem: outcome of the last ReplayMemory call
    config,            \* config["epi_num"], ["store"], ["update_tgt"], ["batch"]
    pc,                \* position of rl_process
    i_episode,         \* loop variable of the outer for
    t,                 \* loop variable of the inner for
    state,             \* rl_process local
    action,            \* rl_process local
    next_state,        \* rl_process local
    reward,            \* rl_process local
    done,              \* rl_process local
    steps_done,        \* rl_process local
    policy_net,        \* parameters of the policy network
    target_net,        \* parameters of the target network
    optimizer,         \* internal state of the RMSprop optimizer
    episode_durations, \* rl_process local
    store_step,        \* rl_process local
    saved,             \* the checkpoints written by torch.save, in order
    synced,            \* history: episodes at whose end the target was overwritten
    opt,               \* outcome and locals of the last optimize_model call
    error,             \* the exception that ended rl_process, or "none"
    sel,               \* outcome of the last select_action call
    tgt_snapshot,      \* history: the policy parameters at construction or at the
                       \* end of the last episode j with j % update_tgt = 0
    eval_epi_num,      \* rl_eval: the argument epi_num
    saved_info,        \* rl_eval: the checkpoint loaded from attn.pth
    logs,              \* rl_eval local
    env_trace,         \* rl_eval: env.trace, the actions of the running episode
    figures            \* rl_eval: the figures eval_plt has saved, in order

memvars == <<memory, pushed, ret>>
rlvars == <<config, pc, i_episode, t, state, action, next_state, reward, done,
            steps_done, policy_net, target_net, optimizer, episode_durations,
            store_step, saved, synced, opt, error, sel, tgt_snapshot>>
evalvars == <<eval_epi_num, saved_info, logs, env_trace, figures>>
vars == <<memory, pushed, ret, config, pc, i_episode, t, state, action,
          next_state, reward, done, steps_done, policy_net, target_net,
          optimizer, episode_durations, store_step, saved, synced, opt, error,
          sel, tgt_snapshot, eval_epi_num, saved_info, logs, env_trace, figures>>

(***************************************************************************)
(* Bounds of the model.                                                    *)
(***************************************************************************)
MaxCap == 2        \* SpecMem: capacities 1..MaxCap
MaxPush == 4       \* SpecMem: at most MaxPush push calls
MaxK == 2          \* SpecMem: sample sizes 0..MaxK
MaxEpi == 3        \* config["epi_num"] and config["store"] in 1..MaxEpi
MaxUpd == 2        \* config["update_tgt"] in 1..MaxUpd
MaxBatch == 2      \* config["batch"] in 1..MaxBatch
MaxEpLen == 2      \* the environment reports done within MaxEpLen steps
MaxSteps == 4      \* a run selects at most MaxSteps actions in total

(***************************************************************************)
(* Constants of the program and of its collaborators.                      *)
(***************************************************************************)
NumActions == 2    \* env.action_space.len of the two-node environment
NumParams == 2     \* the parameter vectors a network of the model can hold
MemoryCapacity == 10000
GAMMA_NUM == 999
GAMMA_DEN == 1000

Actions == 0 .. (NumActions - 1)
Params == 0 .. (NumParams - 1)

Min(a, b) == IF a < b THEN a ELSE b

RECURSIVE SumSeq(_)
SumSeq(s) == IF s = <<>> THEN 0 ELSE s[1] + SumSeq(Tail(s))

(***************************************************************************)
(* Values.  None is Python's None; Tensor(m) is a state tensor whose       *)
(* accessibility row marks exactly the actions in m.                       *)
(***************************************************************************)
None == [isNone |-> TRUE, access |-> {}]
Tensor(m) == [isNone |-> FALSE, access |-> m]
Transition(s, a, ns, r) == [state |-> s, action |-> a, next_state |-> ns, reward |-> r]

(***************************************************************************)
(* class ReplayMemory                                                      *)
(***************************************************************************)
ReplayMemory(capacity) == [capacity |-> capacity, memory |-> <<>>, position |-> 0]

len(mem) == Len(mem.memory)

\* push with the cursor left where it was
push_stuck(mem, tr) ==
    LET grown == IF Len(mem.memory) < mem.capacity
                 THEN Append(mem.memory, None) ELSE mem.memory
    IN [mem EXCEPT !.memory = [grown EXCEPT ![mem.position + 1] = tr]]

\* push with the cursor wrapping one slot late
push_latewrap(mem, tr) ==
    LET grown == IF Len(mem.memory) < mem.capacity
                 THEN Append(mem.memory, None) ELSE mem.memory
    IN [mem EXCEPT !.memory = [grown EXCEPT ![Min(mem.position, mem.capacity - 1) + 1] = tr],
                   !.position = (mem.position + 1) % (mem.capacity + 1)]

push(mem, tr) ==
    LET grown == IF Len(mem.memory) < mem.capacity
                 THEN Append(mem.memory, None) ELSE mem.memory
    IN [mem EXCEPT !.memory = [grown EXCEPT ![mem.position + 1] = tr],
                   !.position = (mem.position + 1) % mem.capacity]

\* the index lists random.sample can draw: k distinct positions, in any order
Draws(n, k) ==
    {s \in [1 .. k -> 1 .. n] : \A a, b \in 1 .. k : a # b => s[a] # s[b]}

\* index lists drawn with replacement
DrawsRepl(n, k) == [1 .. k -> 1 .. n]

SampleOk(mem, idx) ==
    [status |-> "ok", idx |-> idx, value |-> [j \in 1 .. Len(idx) |-> mem.memory[idx[j]]]]
SampleError ==
    [status |-> "ValueError", idx |-> <<>>, value |-> <<>>]

\* sample drawing with replacement
sample_repl(mem, batch_size) ==
    IF batch_size > len(mem)
    THEN {SampleError}
    ELSE {SampleOk(mem, idx) : idx \in DrawsRepl(len(mem), batch_size)}

\* sample truncating the request to what the buffer holds
sample_partial(mem, batch_size) ==
    {SampleOk(mem, idx) : idx \in Draws(len(mem), Min(batch_size, len(mem)))}

\* random.sample(self.memory, batch_size): the set of possible outcomes
sample(mem, batch_size) ==
    IF batch_size > len(mem)
    THEN {SampleError}
    ELSE {SampleOk(mem, idx) : idx \in Draws(len(mem), batch_size)}

(***************************************************************************)
(* SpecMem: a ReplayMemory of capacity 1..MaxCap under arbitrary calls.    *)
(***************************************************************************)
\* the transitions the callers of SpecMem push
MemTransitions ==
    {Transition(Tensor(Actions), 0, Tensor(Actions \ {0}), 1),
     Transition(Tensor(Actions \ {0}), 1, None, 2),
     Transition(Tensor(Actions), 1, None, 2)}

NoRet == [op |-> "none", arg |-> 0, status |-> "none", idx |-> <<>>, value |-> <<>>]
NoOpt == [status |-> "none", batch |-> {}, next_state_values |-> <<>>,
          expected |-> <<>>]
NoConfig == [epi_num |-> 0, store |-> 0, update_tgt |-> 0, batch |-> 0]
NoSel == [status |-> "none", branch |-> "none", action |-> 0, steps_done |-> 0]
NoSavedInfo == [config |-> NoConfig, state_dict |-> 0]

EvalIdle ==
    /\ eval_epi_num = 0
    /\ saved_info = NoSavedInfo
    /\ logs = <<>>
    /\ env_trace = <<>>
    /\ figures = <<>>

RlIdle ==
    /\ config = NoConfig
    /\ pc = "idle"
    /\ i_episode = 0
    /\ t = 0
    /\ state = None
    /\ action = 0
    /\ next_state = None
    /\ reward = 0
    /\ done = FALSE
    /\ steps_done = 0
    /\ policy_net = 0
    /\ target_net = 0
    /\ optimizer = 0
    /\ episode_durations = <<>>
    /\ store_step = 0
    /\ saved = <<>>
    /\ synced = {}
    /\ opt = NoOpt
    /\ error = "none"
    /\ sel = NoSel
    /\ tgt_snapshot = 0

InitMem ==
    /\ \E c \in 1 .. MaxCap : memory = ReplayMemory(c)
    /\ pushed = <<>>
    /\ ret = NoRet
    /\ RlIdle
    /\ EvalIdle

MemPush ==
    /\ Len(pushed) < MaxPush
    /\ \E tr \in MemTransitions :
          /\ memory' = push(memory, tr)
          /\ pushed' = Append(pushed, tr)
          /\ ret' = [NoRet EXCEPT !.op = "push", !.status = "ok"]
    /\ UNCHANGED rlvars
    /\ UNCHANGED evalvars

MemSample ==
    /\ \E k \in 0 .. MaxK :
          \E r \in sample(memory, k) :
             ret' = [op |-> "sample", arg |-> k, status |-> r.status,
                     idx |-> r.idx, value |-> r.value]
    /\ UNCHANGED <<memory, pushed>>
    /\ UNCHANGED rlvars
    /\ UNCHANGED evalvars

NextMem ==
    \/ MemPush
    \/ MemSample

SpecMem == InitMem /\ [][NextMem]_vars

(***************************************************************************)
(* The collaborators of rl_process: the environment and the networks.      *)
(* The environment is a two-node routing instance.  A state tensor is      *)
(* represented by its accessibility row; serving a node makes it           *)
(* inaccessible, and serving the last node fills the vehicle, after which  *)
(* no node is accessible.  When the episode is done is the environment's   *)
(* choice, within MaxEpLen steps.  A network is its parameter vector;      *)
(* forward gives one value per action.                                     *)
(***************************************************************************)
env_reset == Tensor(Actions)

env_step(s, a, d) ==
    [next_state |-> Tensor(IF a = NumActions - 1 THEN {} ELSE s.access \ {a}),
     reward |-> a + 1, done |-> d]

forward(net, s) ==
    [a \in Actions |-> ((net + 1) * (a + 1) + Cardinality(s.access)) % 3]

\* tensor.argmax(): the first index holding the largest value
argmax(v) ==
    CHOOSE a \in DOMAIN v :
        /\ \A b \in DOMAIN v : v[b] <= v[a]
        /\ \A b \in DOMAIN v : v[b] = v[a] => a <= b

\* tensor.max(1)[0]: the largest value
maxval(v) == v[argmax(v)]

(***************************************************************************)
(* select_action: the set of outcomes over the draws of random.random()    *)
(* and random.randrange().  eps_threshold lies strictly between 0 and 1,   *)
(* so either branch can be taken at every call.                            *)
(***************************************************************************)
\* select_action applying the feasibility mask to the exploit branch too
select_action_masked(s, sd, net) ==
    {[status |-> "ok", branch |-> "exploit",
      action |-> IF s.access = {} THEN argmax(forward(net, s))
                 ELSE argmax([a \in s.access |-> forward(net, s)[a]]),
      steps_done |-> sd + 1]}
    \cup
    (IF s.access = {}
     THEN {[status |-> "ValueError", branch |-> "explore", action |-> 0, steps_done |-> sd]}
     ELSE {[status |-> "ok", branch |-> "explore", action |-> a, steps_done |-> sd + 1]
             : a \in s.access})

\* select_action counting only the exploration draws
select_action_explorecount(s, sd, net) ==
    {[status |-> "ok", branch |-> "exploit", action |-> argmax(forward(net, s)),
      steps_done |-> sd]}
    \cup
    (IF s.access = {}
     THEN {[status |-> "ValueError", branch |-> "explore", action |-> 0, steps_done |-> sd]}
     ELSE {[status |-> "ok", branch |-> "explore", action |-> a, steps_done |-> sd + 1]
             : a \in s.access})

select_action(s, sd, net) ==
    {[status |-> "ok", branch |-> "exploit", action |-> argmax(forward(net, s)),
      steps_done |-> sd + 1]}
    \cup
    (IF s.access = {}
     THEN {[status |-> "ValueError", branch |-> "explore", action |-> 0, steps_done |-> sd]}
     ELSE {[status |-> "ok", branch |-> "explore", action |-> a, steps_done |-> sd + 1]
             : a \in s.access})

(***************************************************************************)
(* optimize_model                                                          *)
(***************************************************************************)
\* the guard comparing one short
InsufficientData_short(mem, batch_size) == len(mem) + 1 < batch_size

\* line 95: if len(memory) < batch_size: return
InsufficientData(mem, batch_size) == len(mem) < batch_size

\* the minibatch as optimize_model sees it: the sampled transitions, keyed
\* by the slot each was drawn from (the loss is a mean over the minibatch, so
\* the order of the draw is not kept)
Batch(mem, smp) ==
    [i \in {smp.idx[j] : j \in 1 .. Len(smp.idx)} |-> mem.memory[i]]

\* lines 105-106
non_final_mask(transitions) ==
    [i \in DOMAIN transitions |-> ~ transitions[i].next_state.isNone]

\* lines 123-124
next_state_values(net, transitions) ==
    [i \in DOMAIN transitions |->
        IF ~ transitions[i].next_state.isNone
        THEN maxval(forward(net, transitions[i].next_state))
        ELSE 0]

\* line 126, in units of 1 / GAMMA_DEN
expected_state_action_values(nsv, transitions) ==
    [i \in DOMAIN transitions |->
        nsv[i] * GAMMA_NUM + transitions[i].reward * GAMMA_DEN]

\* a target network sharing storage with the policy it was loaded from
optimizer_step_alias(policy, target, optstate, newp) ==
    [policy_net |-> newp, target_net |-> IF target = policy THEN newp ELSE target,
     optimizer |-> optstate + 1]

\* an optimizer that also holds the target network's parameters
optimizer_step_shared(policy, target, optstate, newp) ==
    [policy_net |-> newp, target_net |-> newp, optimizer |-> optstate + 1]

\* lines 132-137: optimizer = RMSprop(policy_net.parameters()) steps the
\* policy parameters to newp and advances its running averages
optimizer_step(policy, target, optstate, newp) ==
    [policy_net |-> newp, target_net |-> target, optimizer |-> optstate + 1]

\* the outcome of a call and its locals at the return
OptResult(status, policy, target, optstate, transitions, nsv, expected) ==
    [status |-> status, policy_net |-> policy, target_net |-> target,
     optimizer |-> optstate, batch |-> DOMAIN transitions,
     next_state_values |-> nsv, expected |-> expected]

\* the set of outcomes of one call, over the draws of random.sample and the
\* parameter vectors the gradient step can produce
optimize_model(mem, policy, target, optstate, batch_size) ==
    IF InsufficientData(mem, batch_size)
    THEN {OptResult("skipped", policy, target, optstate, <<>>, <<>>, <<>>)}
    ELSE LET drawn == sample(mem, batch_size)
             raised == {smp.status : smp \in {r \in drawn : r.status # "ok"}}
             batches == {Batch(mem, smp) : smp \in {r \in drawn : r.status = "ok"}}
         IN {OptResult(e, policy, target, optstate, <<>>, <<>>, <<>>) : e \in raised}
            \cup
            UNION {
               IF \A i \in DOMAIN transitions : ~ non_final_mask(transitions)[i]
               \* line 107: torch.cat of an empty list raises RuntimeError
               THEN {OptResult("RuntimeError", policy, target, optstate,
                               transitions, <<>>, <<>>)}
               ELSE LET nsv == next_state_values(target, transitions)
                        expected == expected_state_action_values(nsv, transitions)
                    IN {LET upd == optimizer_step(policy, target, optstate, newp)
                        IN OptResult("updated", upd.policy_net, upd.target_net,
                                     upd.optimizer, transitions, nsv, expected)
                          : newp \in Params}
               : transitions \in batches}

(***************************************************************************)
(* rl_process                                                              *)
(***************************************************************************)
\* line 154: int(config["epi_num"] / config["store"])
StoreStep_ceil(epi_num, store) == (epi_num + store - 1) \div store

StoreStep(epi_num, store) == epi_num \div store

\* line 181, testing the number of finished episodes instead of the index
ShouldSync_after(i, update_tgt) == (i + 1) % update_tgt = 0

\* line 181: i_episode % config["update_tgt"] == 0
ShouldSync(i, update_tgt) == i % update_tgt = 0

\* line 184, testing the index instead of the number of finished episodes
ShouldSave_index(i, step) == i % step = 0

\* line 184: (i_episode + 1) % store_step == 0
ShouldSave(i, step) == (i + 1) % step = 0

Configs ==
    [epi_num : 1 .. MaxEpi, store : 1 .. MaxEpi,
     update_tgt : 1 .. MaxUpd, batch : 1 .. MaxBatch]

\* lines 141-154: the state on entry to the episode loop
Init ==
    /\ config \in Configs
    /\ policy_net \in Params
    /\ target_net = policy_net
    /\ optimizer = 0
    /\ memory = ReplayMemory(MemoryCapacity)
    /\ pushed = <<>>
    /\ ret = NoRet
    /\ steps_done = 0
    /\ episode_durations = <<>>
    /\ store_step = StoreStep(config.epi_num, config.store)
    /\ pc = "reset"
    /\ i_episode = 0
    /\ t = 0
    /\ state = None
    /\ action = 0
    /\ next_state = None
    /\ reward = 0
    /\ done = FALSE
    /\ saved = <<>>
    /\ synced = {}
    /\ opt = NoOpt
    /\ error = "none"
    /\ sel = NoSel
    /\ tgt_snapshot = policy_net
    /\ EvalIdle

\* line 159
Reset ==
    /\ pc = "reset"
    /\ state' = env_reset
    /\ t' = 0
    /\ pc' = "select"
    /\ UNCHANGED <<memory, pushed, ret, config, i_episode, action, next_state,
                   reward, done, steps_done, policy_net, target_net, optimizer,
                   episode_durations, store_step, saved, synced, opt, error>>
    /\ UNCHANGED <<sel, tgt_snapshot>>
    /\ UNCHANGED evalvars

\* line 162
SelectAction ==
    /\ pc = "select"
    /\ steps_done < MaxSteps
    /\ \E r \in select_action(state, steps_done, policy_net) :
          /\ sel' = r
          /\ IF r.status = "ok"
             THEN /\ action' = r.action
                  /\ steps_done' = r.steps_done
                  /\ pc' = "step"
                  /\ error' = error
             ELSE /\ pc' = "raised"
                  /\ error' = r.status
                  /\ UNCHANGED <<action, steps_done>>
    /\ UNCHANGED <<memory, pushed, ret, config, i_episode, t, state, next_state,
                   reward, done, policy_net, target_net, optimizer,
                   episode_durations, store_step, saved, synced, opt>>
    /\ UNCHANGED <<tgt_snapshot>>
    /\ UNCHANGED evalvars

\* the terminal sentinel left out
mark_terminal_never(ns, d) == ns

\* lines 165-166: if done: next_state = None
mark_terminal(ns, d) == IF d THEN None ELSE ns

\* lines 163-166
EnvStep ==
    /\ pc = "step"
    /\ \E d \in BOOLEAN :
          /\ (t + 1 >= MaxEpLen) => d
          /\ LET r == env_step(state, action, d)
             IN /\ next_state' = mark_terminal(r.next_state, r.done)
                /\ reward' = r.reward
                /\ done' = r.done
    /\ sel' = NoSel
    /\ pc' = "push"
    /\ UNCHANGED <<memory, pushed, ret, config, i_episode, t, state, action,
                   steps_done, policy_net, target_net, optimizer,
                   episode_durations, store_step, saved, synced, opt, error>>
    /\ UNCHANGED <<tgt_snapshot>>
    /\ UNCHANGED evalvars

\* lines 169-172
Push ==
    /\ pc = "push"
    /\ memory' = push(memory, Transition(state, action, next_state, reward))
    /\ pushed' = Append(pushed, Transition(state, action, next_state, reward))
    /\ state' = next_state
    /\ pc' = "optimize"
    /\ UNCHANGED <<ret, config, i_episode, t, action, next_state, reward, done,
                   steps_done, policy_net, target_net, optimizer,
                   episode_durations, store_step, saved, synced, opt, error>>
    /\ UNCHANGED <<sel, tgt_snapshot>>
    /\ UNCHANGED evalvars

\* line 175
OptimizeModel ==
    /\ pc = "optimize"
    /\ \E r \in optimize_model(memory, policy_net, target_net, optimizer, config.batch) :
          /\ policy_net' = r.policy_net
          /\ target_net' = r.target_net
          /\ optimizer' = r.optimizer
          /\ opt' = [status |-> r.status, batch |-> r.batch,
                     next_state_values |-> r.next_state_values,
                     expected |-> r.expected]
          /\ IF r.status \in {"skipped", "updated"}
             THEN pc' = "end_step" /\ error' = error
             ELSE pc' = "raised" /\ error' = r.status
    /\ UNCHANGED <<memory, pushed, ret, config, i_episode, t, state, action,
                   next_state, reward, done, steps_done, episode_durations,
                   store_step, saved, synced>>
    /\ UNCHANGED <<sel, tgt_snapshot>>
    /\ UNCHANGED evalvars

\* the inner loop without its break
after_step_nobreak(d) == "select"

\* lines 176-178: break out of the inner loop when done, else iterate
after_step(d) == IF d THEN "sync" ELSE "select"

\* lines 176-178, and the next iteration of for t in count()
EndStep ==
    /\ pc = "end_step"
    /\ pc' = after_step(done)
    /\ IF done
       THEN /\ episode_durations' = Append(episode_durations, t + 1)
            /\ t' = t
       ELSE /\ t' = t + 1
            /\ UNCHANGED episode_durations
    /\ opt' = NoOpt
    /\ UNCHANGED <<memory, pushed, ret, config, i_episode, state, action,
                   next_state, reward, done, steps_done, policy_net, target_net,
                   optimizer, store_step, saved, synced, error>>
    /\ UNCHANGED <<sel, tgt_snapshot>>
    /\ UNCHANGED evalvars

\* lines 181-182
TargetSync ==
    /\ pc = "sync"
    /\ IF ShouldSync(i_episode, config.update_tgt)
       THEN /\ target_net' = policy_net
            /\ synced' = synced \cup {i_episode}
       ELSE UNCHANGED <<target_net, synced>>
    /\ tgt_snapshot' = IF i_episode % config.update_tgt = 0
                       THEN policy_net ELSE tgt_snapshot
    /\ pc' = "save"
    /\ UNCHANGED <<memory, pushed, ret, config, i_episode, t, state, action,
                   next_state, reward, done, steps_done, policy_net, optimizer,
                   episode_durations, store_step, saved, opt, error>>
    /\ UNCHANGED <<sel>>
    /\ UNCHANGED evalvars

\* lines 184-187, and the next iteration of for i_episode in range(epi_num)
Checkpoint ==
    /\ pc = "save"
    /\ IF store_step = 0
       THEN \* (i_episode + 1) % 0 raises ZeroDivisionError
            /\ pc' = "raised"
            /\ error' = "ZeroDivisionError"
            /\ UNCHANGED <<saved, i_episode>>
       ELSE /\ saved' = IF ShouldSave(i_episode, store_step)
                        THEN Append(saved, i_episode + 1) ELSE saved
            /\ i_episode' = i_episode + 1
            /\ pc' = IF i_episode + 1 < config.epi_num THEN "reset" ELSE "plot"
            /\ error' = error
    /\ UNCHANGED <<memory, pushed, ret, config, t, state, action, next_state,
                   reward, done, steps_done, policy_net, target_net, optimizer,
                   episode_durations, store_step, synced, opt>>
    /\ UNCHANGED <<sel, tgt_snapshot>>
    /\ UNCHANGED evalvars

\* line 189
PlotDurations ==
    /\ pc = "plot"
    /\ pc' = "done"
    /\ UNCHANGED <<memory, pushed, ret, config, i_episode, t, state, action,
                   next_state, reward, done, steps_done, policy_net, target_net,
                   optimizer, episode_durations, store_step, saved, synced, opt,
                   error>>
    /\ UNCHANGED <<sel, tgt_snapshot>>
    /\ UNCHANGED evalvars

Next ==
    \/ Reset
    \/ SelectAction
    \/ EnvStep
    \/ Push
    \/ OptimizeModel
    \/ EndStep
    \/ TargetSync
    \/ Checkpoint
    \/ PlotDurations

Spec == Init /\ [][Next]_vars

(***************************************************************************)
(* rl_eval                                                                 *)
(***************************************************************************)
\* env.split_cost(): the cost of the route driven in the running episode
split_cost(tr) == SumSeq([j \in 1 .. Len(tr) |-> tr[j] + 1])

\* the greedy choice restricted to the accessible actions
eval_action_masked(net, s) ==
    IF s.access = {} THEN 0
    ELSE argmax([a \in s.access |-> forward(net, s)[a]])

\* line 262: policy_net(state).argmax()
eval_action(net, s) == argmax(forward(net, s))

\* rl_eval builds no replay memory, target network or optimizer
NoMemory == ReplayMemory(0)

\* lines 250-257: the state on entry to the episode loop
InitEval ==
    /\ eval_epi_num \in 0 .. MaxEpi
    /\ saved_info \in [config : Configs, state_dict : Params]
    /\ config = saved_info.config
    /\ policy_net = saved_info.state_dict
    /\ logs = <<>>
    /\ env_trace = <<>>
    /\ figures = <<>>
    /\ pc = IF eval_epi_num > 0 THEN "eval_reset" ELSE "eval_done"
    /\ i_episode = 0
    /\ t = 0
    /\ state = None
    /\ action = 0
    /\ next_state = None
    /\ reward = 0
    /\ done = FALSE
    /\ memory = NoMemory
    /\ pushed = <<>>
    /\ ret = NoRet
    /\ steps_done = 0
    /\ target_net = 0
    /\ optimizer = 0
    /\ episode_durations = <<>>
    /\ store_step = 0
    /\ saved = <<>>
    /\ synced = {}
    /\ opt = NoOpt
    /\ error = "none"
    /\ sel = NoSel
    /\ tgt_snapshot = 0

\* what no statement of rl_eval assigns
evalframe == <<memory, pushed, ret, config, steps_done, policy_net, target_net,
               optimizer, episode_durations, store_step, saved, synced, opt,
               error, sel, tgt_snapshot, eval_epi_num, saved_info>>

\* line 260
EvalReset ==
    /\ pc = "eval_reset"
    /\ state' = env_reset
    /\ env_trace' = <<>>
    /\ t' = 0
    /\ pc' = "eval_act"
    /\ UNCHANGED <<i_episode, action, next_state, reward, done, logs, figures>>
    /\ UNCHANGED evalframe

\* line 262
EvalAct ==
    /\ pc = "eval_act"
    /\ action' = eval_action(policy_net, state)
    /\ pc' = "eval_step"
    /\ UNCHANGED <<i_episode, t, state, next_state, reward, done, logs, env_trace,
                   figures>>
    /\ UNCHANGED evalframe

\* lines 263-264
EvalStep ==
    /\ pc = "eval_step"
    /\ \E d \in BOOLEAN :
          /\ (t + 1 >= MaxEpLen) => d
          /\ LET r == env_step(state, action, d)
             IN /\ next_state' = r.next_state
                /\ reward' = r.reward
                /\ done' = r.done
                /\ state' = r.next_state
    /\ env_trace' = Append(env_trace, action)
    /\ pc' = "eval_end"
    /\ UNCHANGED <<i_episode, t, action, logs, figures>>
    /\ UNCHANGED evalframe

\* lines 265-269, and the next iteration of either loop
EvalEnd ==
    /\ pc = "eval_end"
    /\ IF done
       THEN /\ logs' = Append(logs, [cost |-> split_cost(env_trace), trace |-> env_trace])
            /\ figures' = Append(figures, <<i_episode, t>>)
            /\ i_episode' = i_episode + 1
            /\ pc' = IF i_episode + 1 < eval_epi_num THEN "eval_reset" ELSE "eval_done"
            /\ t' = t
       ELSE /\ t' = t + 1
            /\ pc' = "eval_act"
            /\ UNCHANGED <<logs, figures, i_episode>>
    /\ UNCHANGED <<state, action, next_state, reward, done, env_trace>>
    /\ UNCHANGED evalframe

NextEval ==
    \/ EvalReset
    \/ EvalAct
    \/ EvalStep
    \/ EvalEnd

SpecEval == InitEval /\ [][NextEval]_vars

(***************************************************************************)
(* Properties of ReplayMemory, checked under SpecMem.                      *)
(***************************************************************************)

\* C1: once more than capacity transitions have been pushed, len() equals the
\* capacity and the buffer holds exactly the capacity most recent pushes, the
\* m-th push (from 0) sitting in slot m mod capacity: every push beyond
\* capacity replaced the oldest remaining transition and no other.
C1_RingKeepsMostRecent ==
    LET n == Len(pushed)
        C == memory.capacity
    IN n > C =>
          /\ len(memory) = C
          /\ \A m \in (n - C) .. (n - 1) : memory.memory[(m % C) + 1] = pushed[m + 1]

C1_Witness ==
    /\ memory.capacity >= 2
    /\ Len(pushed) >= memory.capacity + 2
    /\ ret.op = "push"
    /\ pushed[Len(pushed)] # pushed[Len(pushed) - memory.capacity]

\* C2: the write cursor stays in [0, capacity), len() <= capacity, and after
\* n pushes len() = min(n, capacity) and position = n mod capacity.
C2_CursorAndLength ==
    LET n == Len(pushed)
        C == memory.capacity
    IN /\ memory.position \in 0 .. (C - 1)
       /\ len(memory) <= C
       /\ len(memory) = Min(n, C)
       /\ memory.position = n % C

C2_Witness ==
    /\ ret.op = "push"
    /\ Len(pushed) > memory.capacity
    /\ memory.position = 0
    /\ len(memory) = memory.capacity

\* C3: sample(k) with k <= len() returns exactly k transitions, each taken
\* from a slot of the buffer, no slot twice, and changes neither the buffer
\* contents nor the write cursor.
C3_SampleDistinct ==
    [][(ret'.op = "sample" /\ ret'.arg <= len(memory)) =>
          /\ ret'.status = "ok"
          /\ Len(ret'.value) = ret'.arg
          /\ Len(ret'.idx) = ret'.arg
          /\ \A j \in 1 .. ret'.arg :
                /\ ret'.idx[j] \in 1 .. len(memory)
                /\ ret'.value[j] = memory.memory[ret'.idx[j]]
          /\ \A a, b \in 1 .. ret'.arg : a # b => ret'.idx[a] # ret'.idx[b]
          /\ memory' = memory]_vars

C3_Witness ==
    /\ ret.op = "sample"
    /\ ret.status = "ok"
    /\ ret.arg >= 2
    /\ ret.arg = len(memory)

\* C4: sample(k) with k > len() raises an error, returns no transition at
\* all, and changes neither the buffer contents nor the write cursor.
C4_SampleTooLarge ==
    [][(ret'.op = "sample" /\ ret'.arg > len(memory)) =>
          /\ ret'.status = "ValueError"
          /\ ret'.value = <<>>
          /\ memory' = memory]_vars

C4_Witness ==
    /\ ret.op = "sample"
    /\ ret.arg > len(memory)
    /\ len(memory) >= 1
    /\ ret.status = "ValueError"

(***************************************************************************)
(* Properties of optimize_model and rl_process, checked under Spec.        *)
(***************************************************************************)

\* C5: optimize_model called with len(memory) < batch_size returns without
\* an error, draws no sample, and leaves the policy parameters, the target
\* parameters, the optimizer state and the replay memory unchanged.
C5_SkipMutatesNothing ==
    [][(pc = "optimize" /\ len(memory) < config.batch) =>
          /\ opt'.status = "skipped"
          /\ opt'.batch = {}
          /\ pc' = "end_step"
          /\ error' = "none"
          /\ policy_net' = policy_net
          /\ target_net' = target_net
          /\ optimizer' = optimizer
          /\ memory' = memory]_vars

C5_Witness ==
    /\ pc = "end_step"
    /\ opt.status = "skipped"
    /\ len(memory) >= 1
    /\ len(memory) < config.batch

\* C6 as claimed: every optimize_model call that has enough data completes,
\* and each sampled transition's TD target is its reward when next_state is
\* None and reward + GAMMA * max target value otherwise, also when every
\* sampled transition is terminal.
C6_Claim_TerminalTargets ==
    (opt.status \notin {"none", "skipped"}) =>
        /\ opt.status = "updated"
        /\ Cardinality(opt.batch) = config.batch
        /\ DOMAIN opt.expected = opt.batch
        /\ \A i \in opt.batch :
              LET tr == memory.memory[i]
              IN IF tr.next_state.isNone
                 THEN opt.expected[i] = tr.reward * GAMMA_DEN
                 ELSE opt.expected[i] = tr.reward * GAMMA_DEN
                          + GAMMA_NUM * maxval(forward(target_net, tr.next_state))

C8_SyncEpisodes ==
    LET ended == IF pc = "save" \/ (pc = "raised" /\ error = "ZeroDivisionError")
                 THEN 0 .. i_episode ELSE 0 .. (i_episode - 1)
    IN /\ synced = {i \in ended : i % config.update_tgt = 0}
       /\ (pc = "save" /\ i_episode % config.update_tgt = 0) => target_net = policy_net

C8_Witness ==
    /\ pc = "save"
    /\ config.update_tgt = 2
    /\ i_episode = 2
    /\ synced = {0, 2}
    /\ optimizer >= 1

\* C9 as claimed: rl_process ends only after exactly epi_num episodes, with
\* epi_num recorded durations that add up to the steps taken and, when store
\* divides epi_num, exactly store checkpoints saved.
C9_Claim_RunsAllEpisodes ==
    (pc \in {"done", "raised"}) =>
        /\ pc = "done"
        /\ i_episode = config.epi_num
        /\ Len(episode_durations) = config.epi_num
        /\ SumSeq(episode_durations) = Len(pushed)
        /\ (config.epi_num % config.store = 0 => Len(saved) = config.store)

C11_Claim_NoFeasibleActionError ==
    (sel.branch = "explore" /\ state.access = {}) =>
        /\ sel.status = "NoFeasibleActionError"
        /\ error = "NoFeasibleActionError"
        /\ pc = "raised"

\* C12: an exploring select_action returns a member of the state's accessible
\* set; an exploiting one returns the first index of the largest policy value
\* over the whole action space, accessible or not.
C12_ExploreFeasibleExploitArgmax ==
    (sel.status = "ok") =>
        LET q == forward(policy_net, state)
        IN /\ action = sel.action
           /\ sel.branch = "explore" => sel.action \in state.access
           /\ sel.branch = "exploit" =>
                 /\ sel.action \in Actions
                 /\ \A b \in Actions : q[b] <= q[sel.action]
                 /\ \A b \in Actions : q[b] = q[sel.action] => sel.action <= b

C12_Witness ==
    /\ sel.status = "ok"
    /\ sel.branch = "exploit"
    /\ state.access # {}
    /\ sel.action \notin state.access

\* C13: every select_action call that returns hands back the counter it was
\* given plus one, on either branch; steps_done starts at 0, is never reset
\* between episodes, and always equals the number of actions selected so far
\* in the run.
C13_StepCounter ==
    /\ steps_done = Len(pushed) + (IF pc \in {"step", "push"} THEN 1 ELSE 0)
    /\ sel.status = "ok" => sel.steps_done = Len(pushed) + 1

C13_Witness ==
    /\ pc = "step"
    /\ sel.status = "ok"
    /\ sel.branch = "exploit"
    /\ i_episode >= 1
    /\ steps_done >= 3

(***************************************************************************)
(* Properties of rl_eval, checked under SpecEval.                          *)
(***************************************************************************)

\* C14: rl_eval never explores and never learns: each step's action is the
\* first index of the largest policy value, no transition is pushed, no
\* optimizer step or target sync happens and the loaded policy parameters stay
\* as loaded; logs holds one {cost, trace} entry per completed episode, in
\* episode order, and exactly epi_num of them when the evaluation has finished.
C14_EvalGreedyNoLearning ==
    /\ policy_net = saved_info.state_dict
    /\ memory = NoMemory
    /\ pushed = <<>>
    /\ optimizer = 0
    /\ opt = NoOpt
    /\ synced = {}
    /\ sel = NoSel
    /\ (pc = "eval_step") =>
          LET q == forward(policy_net, state)
          IN /\ action \in Actions
             /\ \A b \in Actions : q[b] <= q[action]
             /\ \A b \in Actions : q[b] = q[action] => action <= b
    /\ Len(logs) = i_episode
    /\ Len(figures) = Len(logs)
    /\ \A j \in 1 .. Len(logs) :
          /\ DOMAIN logs[j] = {"cost", "trace"}
          /\ figures[j][1] = j - 1
          /\ Len(logs[j].trace) = figures[j][2] + 1
    /\ (pc = "eval_done") => Len(logs) = eval_epi_num

C14_Witness ==
    /\ pc = "eval_done"
    /\ eval_epi_num = 3
    /\ Len(logs) = 3
    /\ Len(logs[1].trace) = 2
    /\ Len(logs[2].trace) = 1
    /\ logs[1].trace[2] = logs[1].trace[1]

(***************************************************************************)
(* Properties of the training step of rl_process, checked under Spec.      *)
(***************************************************************************)

\* C16: a training step runs select action, environment step, push,
\* optimizer step in that order, with exactly one push before the step's
\* optimizer call; the transition pushed for a done step is the only one of
\* its episode with next_state None; and the optimizer has run for the
\* terminal step before the episode's duration is recorded.
C16_StepOrder ==
    LET total == SumSeq(episode_durations)
        ends == {SumSeq(SubSeq(episode_durations, 1, k)) :
                    k \in 1 .. Len(episode_durations)}
        inflight == \/ pc \in {"optimize", "end_step"}
                    \/ (pc = "raised" /\ opt.status # "none")
    IN /\ (pc = "step") => (sel.status = "ok" /\ Len(pushed) = steps_done - 1)
       /\ (pc = "push") => (sel = NoSel /\ Len(pushed) = steps_done - 1)
       /\ (pc = "optimize") =>
             (opt = NoOpt /\ Len(pushed) = steps_done /\ Len(pushed) = total + t + 1)
       /\ (pc = "end_step") =>
             /\ opt.status \in {"skipped", "updated"}
             /\ Len(pushed) = total + t + 1
             /\ Len(episode_durations) = i_episode
       /\ (pc = "sync") =>
             /\ Len(episode_durations) = i_episode + 1
             /\ episode_durations[i_episode + 1] = t + 1
             /\ total = Len(pushed)
       /\ \A j \in 1 .. Len(pushed) :
             pushed[j].next_state.isNone <=>
                (j \in ends \/ (j = Len(pushed) /\ j > total /\ done /\ inflight))

C16_Witness ==
    /\ pc = "end_step"
    /\ done
    /\ t = 1
    /\ i_episode = 1
    /\ opt.status = "updated"

C18_NoneStateNeverUsed ==
    /\ (pc \in {"select", "step", "push"}) => ~ state.isNone
    /\ \A j \in 1 .. Len(pushed) : ~ pushed[j].state.isNone
    /\ (pc \in {"optimize", "end_step", "sync", "save"} /\ done) => state.isNone

C18_Witness ==
    /\ pc = "select"
    /\ i_episode = 1
    /\ pushed[Len(pushed)].next_state.isNone
    /\ ~ state.isNone

\* C19 as claimed: the one replay memory of capacity 10000 holds
\* min(n, 10000) transitions after n environment steps of the run, and an
\* optimize_model call performs an update exactly when the run has taken at
\* least batch steps, whatever the episode boundaries.
C19_Claim_UpdatesOnceFilled ==
    /\ memory.capacity = MemoryCapacity
    /\ len(memory) = Min(Len(pushed), MemoryCapacity)
    /\ (opt.status # "none") =>
          (IF Len(pushed) >= config.batch
           THEN opt.status = "updated"
           ELSE opt.status = "skipped")
====
